---------------------------- MODULE Spec2Model ----------------------------
(***************************************************************************)
(* Model of the commuting well-being simulation                            *)
(* (src/src/wellbeing_simulation.py, src/src/economic_indicators.py).      *)
(*                                                                         *)
(* Python floats are modelled as exact rationals [n |-> Int, d |-> Nat],   *)
(* kept in lowest terms; rounding of the binary floating point format is   *)
(* not modelled.  A rational with d = 0 stands for a name that has not     *)
(* been bound to a value.                                                  *)
(***************************************************************************)
EXTENDS Integers, Sequences, FiniteSets, TLC

-----------------------------------------------------------------------------
(* Bounds of the model *)

\* day indices drawn for a single day are 0..MaxDay
MaxDay == 3

\* residents per income group and workplace are 1..MaxPeople
MaxPeople == 2

\* iterations of the widening loop that the model follows
MaxWiden == 6

\* workplaces simulate visits: range(4)
Workplaces == 4

\* days of the resident whose reduction to a row is checked on drawn lists
MaxReduceDays == 2

\* residents drawn in one income group (people_number) in SpecIncome
MaxDraws == 3

-----------------------------------------------------------------------------
(* Exact rational arithmetic standing for Python float arithmetic *)

Abs(x) == IF x < 0 THEN -x ELSE x

RECURSIVE GCD(_, _)
GCD(a, b) == IF b = 0 THEN a ELSE GCD(b, a % b)

Norm(n, d) ==
    LET g == GCD(Abs(n), Abs(d))
        s == IF d < 0 THEN -1 ELSE 1
    IN  [n |-> s * (n \div g), d |-> s * (d \div g)]

R(n, d) == Norm(n, d)
I(k) == [n |-> k, d |-> 1]
Zero == I(0)
Unbound == [n |-> 0, d |-> 0]

LCM(a, b) == (a \div GCD(a, b)) * b

RAdd(x, y) ==
    LET l == LCM(x.d, y.d)
    IN  Norm(x.n * (l \div x.d) + y.n * (l \div y.d), l)
RNeg(x) == [n |-> -x.n, d |-> x.d]
RSub(x, y) == RAdd(x, RNeg(y))
RMul(x, y) ==
    LET g1 == GCD(Abs(x.n), y.d)
        g2 == GCD(Abs(y.n), x.d)
    IN  Norm((x.n \div g1) * (y.n \div g2), (x.d \div g2) * (y.d \div g1))
RInv(x) == Norm(x.d, x.n)
RDiv(x, y) == RMul(x, RInv(y))
RLe(x, y) ==
    LET l == LCM(x.d, y.d)
    IN  x.n * (l \div x.d) <= y.n * (l \div y.d)
RLt(x, y) == RLe(x, y) /\ x # y
RMax(x, y) == IF RLe(x, y) THEN y ELSE x
RMin(x, y) == IF RLe(x, y) THEN x ELSE y

\* Python int(x): truncation towards zero
PyInt(x) == IF x.n >= 0 THEN x.n \div x.d ELSE -((-x.n) \div x.d)

RECURSIVE RSum(_)
RSum(s) == IF s = <<>> THEN Zero ELSE RAdd(s[1], RSum(Tail(s)))

-----------------------------------------------------------------------------
(* Arguments of simulate.  The values a city supplies (get_city_data) are  *)
(* data; the model fixes small ones that exercise both sides of every      *)
(* comparison of the code.                                                 *)

\* two income groups: annual average income, income range, rent-income ratio
average_income == <<10440, 41760>>
income_range == << <<R(20877, 2), R(20883, 2)>>, <<R(83517, 2), R(83523, 2)>> >>
rent_income_ratio == <<R(30, 100), R(29, 100)>>
min_consumption == I(50)
residential_consumption_proportion == R(24, 100)
transportation_consumption_proportion == R(13, 100)
average_saving_ratio == R(335, 1000)

\* a rental listing with its commute attributes (one row of the table df)
Listing(rp, dd, dt, dfare, cd, ct, tp) ==
    [individual_rent_price |-> rp, driving_distance |-> dd, driving_time |-> dt,
     driving_fare |-> dfare, commuting_distance |-> cd, commuting_time |-> ct,
     transit_price |-> tp]

\* listings drawn for a single day of commuting
DayListings ==
    { Listing(rp, 12, dt, dfare, cd, ct, 10) :
        rp \in {300, 1500}, dt \in {30, 40}, dfare \in {5, 15, 40},
        cd \in {10, 15}, ct \in {60, 90} }

\* listing tables read for a workplace
Tables ==
    { << Listing(300, 12, 30, 15, 10, 60, 10), Listing(1500, 8, 40, 5, 15, 60, 10) >>,
      << Listing(200, 12, 40, 40, 10, 90, 10) >>,
      << Listing(1500, 12, 30, 5, 15, 90, 10), Listing(300, 6, 40, 40, 10, 60, 10),
         Listing(900, 9, 30, 15, 10, 90, 10) >> }

\* theta_select = 1.5
theta_select == R(3, 2)

\* one multiplier per day; 1 = unaffected speed
Attenuations == {R(1, 4), R(1, 2), R(3, 4), R(1, 1), R(3, 2), R(2, 1)}
AttenuationSeries ==
    { <<>> } \cup { <<a>> : a \in Attenuations }
             \cup { <<a, b, c>> : a, b, c \in {R(1, 2), R(1, 1)} }

Incomes == {10440, 41760}

-----------------------------------------------------------------------------
VARIABLES
    pc,                                     \* position in simulate
    exception,                              \* the exception raised, or "none"
    people,                                 \* residents per income group
    theta,                                  \* well-being model coefficient
    velocity_attenuation_percentage_list,
    df,                                     \* listing table of the workplace
    w, i, p,                                \* loop indices of simulate
    people_income_list,
    actual_average_rent_income_ratio,
    rent_income_ratios,                     \* history: rent / income of the residents housed in the group
    rent_income_ratio_range,
    rent_option,
    retries,                                \* iterations of the widening loop so far
    individual_income,
    rent,                                   \* the listing chosen for the resident
    savings,
    r,                                      \* day index
    velocity_attenuation_percentage,
    today,                                  \* commuting_consumption, income_lost, time_add,
                                            \* distance_add of the day, and the branch taken
    consumption_today, asset_lost_today,
    consumption_today_no_rainfall,
    consumption, consumption_no_rainfall,
    asset, well_being_loss,
    asset_lost_per_day, time_add_per_day, distance_add_per_day,
    disposable_asset_today, disposable_asset_today_no_rainfall,
    result_save_df, result_dave_df,
    written,                                \* the table written by to_excel
    processed                               \* residents reduced to a row so far

inputVars == <<people, theta, velocity_attenuation_percentage_list>>
loopVars == <<df, w, i, p, people_income_list, actual_average_rent_income_ratio, rent_income_ratios>>
housingVars == <<rent_income_ratio_range, rent_option, retries>>
residentVars == <<individual_income, rent, savings>>
dayVars == <<r, velocity_attenuation_percentage, today, consumption_today,
             asset_lost_today, consumption_today_no_rainfall,
             disposable_asset_today, disposable_asset_today_no_rainfall>>
listVars == <<consumption, consumption_no_rainfall, asset, well_being_loss,
              asset_lost_per_day, time_add_per_day, distance_add_per_day>>
resultVars == <<result_save_df, result_dave_df, written, processed>>
vars == <<pc, exception, inputVars, loopVars, housingVars, residentVars, dayVars,
          listVars, resultVars>>

-----------------------------------------------------------------------------
(* economic_indicators.py *)

\* get_individual_income: <<income_permonth, income_perday, income_perhour>>
get_individual_income(income) ==
    LET income_permonth == RDiv(I(income), I(12))
        income_perday == RDiv(income_permonth, R(2175, 100))
        income_perhour == RDiv(income_perday, I(8))
    IN  <<income_permonth, income_perday, income_perhour>>

\* get_consumption: <<disposable_consumption_today, asset_loss_today>>
get_consumption(initial_disposable_consumption, rent_perday, income_perday, extra_consumption_perday, saving_ratio, commuting_consumption, income_loss) ==
    LET disposable_consumption_today ==
            RSub(RSub(RMax(RSub(RSub(initial_disposable_consumption, rent_perday),
                                extra_consumption_perday),
                           RMul(income_perday, saving_ratio)),
                      commuting_consumption),
                 income_loss)
        asset_loss_today == RAdd(commuting_consumption, income_loss)
    IN  <<disposable_consumption_today, asset_loss_today>>

\* a filter that also keeps a rent equal to a bound
get_housing_group_Inclusive(table, rent_range_peryear) ==
    SelectSeq(table,
              LAMBDA l : /\ RLe(I(l.individual_rent_price), RDiv(rent_range_peryear[2], I(12)))
                         /\ RLe(RDiv(rent_range_peryear[1], I(12)), I(l.individual_rent_price)))

\* get_housing_group: the rows whose rent lies strictly inside the range
get_housing_group(table, rent_range_peryear) ==
    SelectSeq(table,
              LAMBDA l : /\ RLt(I(l.individual_rent_price), RDiv(rent_range_peryear[2], I(12)))
                         /\ RLt(RDiv(rent_range_peryear[1], I(12)), I(l.individual_rent_price)))

\* the running average of line 229 (0 before the first draw, line 217)
RunningAverage(drawn) ==
    IF drawn = <<>> THEN Zero ELSE RDiv(RSum([k \in 1..Len(drawn) |-> I(drawn[k])]), I(Len(drawn)))

\* a draw rule with the two branches of lines 219-228 exchanged
IncomeDraws_Swapped(range, average, drawn) ==
    IF RLt(RunningAverage(drawn), average)
    THEN PyInt(range[1]) .. PyInt(average)
    ELSE PyInt(average) .. PyInt(range[2])

\* one draw of get_people_income_list, given the incomes drawn so far:
\* the values random.randint can return (average is a rational)
IncomeDraws(range, average, drawn) ==
    IF RLt(average, RunningAverage(drawn))
    THEN PyInt(range[1]) .. PyInt(average)
    ELSE PyInt(average) .. PyInt(range[2])

\* get_people_income_list: the lists the function can return
RECURSIVE get_people_income_list(_, _, _)
get_people_income_list(range, average, people_number) ==
    IF people_number = 0 THEN { <<>> }
    ELSE UNION { { Append(drawn, x) : x \in IncomeDraws(range, average, drawn) } :
                 drawn \in get_people_income_list(range, average, people_number - 1) }

\* x ** e for a whole exponent e
RECURSIVE RPow(_, _)
RPow(x, e) ==
    IF e = 0 THEN I(1) ELSE IF e > 0 THEN RMul(x, RPow(x, e - 1)) ELSE RInv(RPow(x, -e))

\* the result of a float operation that is not a number (inf - inf)
NaN == [n |-> 0, d |-> -1]

\* get_wellbeing for a whole theta other than 1, in units of math.exp(-0.1):
\* <<well_being_increment, wellbeing_loss>>
get_wellbeing(disposable_asset_today_, disposable_asset_today_ideally, theta_) ==
    LET exponent == RSub(I(1), theta_)
        utility == RDiv(RPow(disposable_asset_today_, exponent.n), exponent)
        utility_ideally == RDiv(RPow(disposable_asset_today_ideally, exponent.n), exponent)
    IN  <<utility, RSub(utility_ideally, utility)>>

-----------------------------------------------------------------------------
(* wellbeing_simulation.py *)

\* weights applied to the inverses themselves, without the division by
\* their totals
probability_normalize_Unnormalised(distance_list, time_list, rent_list, weight1, weight2, weight3) ==
    [k \in 1..Len(distance_list) |->
        RAdd(RAdd(RMul(RInv(I(distance_list[k])), weight1), RMul(RInv(I(time_list[k])), weight2)),
             RMul(RInv(I(rent_list[k])), weight3))]

\* probability_normalize: one weight per candidate
probability_normalize(distance_list, time_list, rent_list, weight1, weight2, weight3) ==
    LET Inverse(list) == [k \in 1..Len(list) |-> RInv(I(list[k]))]
        Chance(list) == [k \in 1..Len(list) |-> RDiv(Inverse(list)[k], RSum(Inverse(list)))]
        distance_chance == Chance(distance_list)
        time_chance == Chance(time_list)
        rent_chance == Chance(rent_list)
    IN  [k \in 1..Len(distance_chance) |->
            RAdd(RAdd(RMul(distance_chance[k], weight1), RMul(time_chance[k], weight2)),
                 RMul(rent_chance[k], weight3))]

\* the hourly wage used to price time: max(income_per_hour, 10)
Wage(income_per_hour) == RMax(income_per_hour, I(10))

\* fare_add: extra fare of driving, divided by the attenuation
FareAdd(a, l) == RDiv(I(l.driving_fare - l.transit_price), a)

\* income_loss: income forfeited by transit's extra time relative to driving
IncomeLoss(a, l, income_per_hour) ==
    RDiv(RMul(RMul(RInv(a), Wage(income_per_hour)), I(l.commuting_time - l.driving_time)),
         I(60))

\* the day's values when the resident does not commute or it does not rain
NoChange(branch) ==
    [branch |-> branch, commuting_consumption |-> Zero, income_lost |-> Zero,
     time_add |-> Zero, distance_add |-> Zero]

\* DriveOption with no income lost to the slowed drive
DriveOption_NoIncomeLost(a, l, income_per_hour) ==
    [branch |-> "drive",
     commuting_consumption |-> FareAdd(a, l),
     income_lost |-> Zero,
     time_add |-> RSub(RMul(I(l.driving_time), RInv(a)), I(l.commuting_time)),
     distance_add |-> I(l.driving_distance - l.commuting_distance)]

\* the day's values when the resident switches to driving
DriveOption(a, l, income_per_hour) ==
    [branch |-> "drive",
     commuting_consumption |-> FareAdd(a, l),
     income_lost |-> RMul(RDiv(RMax(RSub(RDiv(I(l.driving_time), a), I(l.commuting_time)),
                                    Zero),
                               I(60)),
                          Wage(income_per_hour)),
     time_add |-> RSub(RMul(I(l.driving_time), RInv(a)), I(l.commuting_time)),
     distance_add |-> I(l.driving_distance - l.commuting_distance)]

\* the day's values when the resident keeps transit, slowed by the rain
TransitOption(a, l, income_per_hour) ==
    [branch |-> "transit",
     commuting_consumption |-> Zero,
     income_lost |-> RMul(RDiv(I(l.commuting_time), RMul(I(60), a)), Wage(income_per_hour)),
     time_add |-> RMul(I(l.commuting_time), RSub(RInv(a), I(1))),
     distance_add |-> Zero]

\* IsWeekend with the second weekend day forgotten
IsWeekend_OneDay(day) == day % 7 = 0

\* whether day index day is one on which the resident does not commute
IsWeekend(day) == day % 7 = 0 \/ day % 7 = 1

\* whether the attenuation counts as no rain on the commute
IsNoRain(a) == PyInt(a) = 1

\* SwitchToDriving with a strict comparison
SwitchToDriving_Strict(a, l, income_per_hour) ==
    RLt(FareAdd(a, l), IncomeLoss(a, l, income_per_hour))

\* whether the resident switches to driving on a rainy workday
SwitchToDriving(a, l, income_per_hour) ==
    RLe(FareAdd(a, l), IncomeLoss(a, l, income_per_hour))

\* the body of the day loop up to the call of get_consumption
DailyCommuteDecision(day, a, l, income_per_hour) ==
    IF IsWeekend(day) THEN NoChange("weekend")
    ELSE IF IsNoRain(a) THEN NoChange("no_rain")
    ELSE IF SwitchToDriving(a, l, income_per_hour)
         THEN DriveOption(a, l, income_per_hour)
         ELSE TransitOption(a, l, income_per_hour)

\* values of a resident that the day loop reads
rent_per_day(l) == RDiv(I(l.individual_rent_price), I(30))
extra_consumption_per_day(l) ==
    RMul(RDiv(rent_per_day(l), residential_consumption_proportion),
         RSub(RSub(I(1), residential_consumption_proportion),
              transportation_consumption_proportion))
initial_disposable_consumption(income) ==
    RMax(get_individual_income(income)[2], min_consumption)
InitialSavings(income) == RMul(I(2 * income), average_saving_ratio)

\* the two calls of get_consumption of a day: with the day's values, and with 0, 0
ConsumptionToday(income, l, commuting_consumption, income_lost) ==
    get_consumption(initial_disposable_consumption(income), rent_per_day(l),
                    get_individual_income(income)[2], extra_consumption_per_day(l),
                    average_saving_ratio, commuting_consumption, income_lost)

-----------------------------------------------------------------------------
(* Values of the names that a specification does not use *)

NoListing == Listing(0, 0, 0, 0, 0, 0, 0)
NoToday == [branch |-> "unbound", commuting_consumption |-> Unbound,
            income_lost |-> Unbound, time_add |-> Unbound, distance_add |-> Unbound]

IdleInputs ==
    /\ people = 0
    /\ theta = theta_select
    /\ velocity_attenuation_percentage_list = <<>>
IdleLoop ==
    /\ df = <<>>
    /\ w = 0 /\ i = 0 /\ p = 0
    /\ people_income_list = <<>>
    /\ actual_average_rent_income_ratio = Zero
    /\ rent_income_ratios = <<>>
IdleHousing ==
    /\ rent_income_ratio_range = <<Unbound, Unbound>>
    /\ rent_option = <<>>
    /\ retries = 0
IdleResident ==
    /\ individual_income = 0
    /\ rent = NoListing
    /\ savings = Unbound
IdleDay ==
    /\ r = 0
    /\ velocity_attenuation_percentage = Unbound
    /\ today = NoToday
    /\ consumption_today = Unbound
    /\ asset_lost_today = Unbound
    /\ consumption_today_no_rainfall = <<Unbound, Unbound>>
    /\ disposable_asset_today = Unbound
    /\ disposable_asset_today_no_rainfall = Unbound
IdleLists ==
    /\ consumption = <<>>
    /\ consumption_no_rainfall = <<>>
    /\ asset = <<>>
    /\ well_being_loss = <<>>
    /\ asset_lost_per_day = <<>>
    /\ time_add_per_day = <<>>
    /\ distance_add_per_day = <<>>
IdleResults ==
    /\ result_save_df = <<>>
    /\ result_dave_df = <<>>
    /\ written = <<>>
    /\ processed = 0

-----------------------------------------------------------------------------
(* SpecDecision: one pass of the body of the day loop, from the test of    *)
(* the day index to the two calls of get_consumption, on a drawn day       *)
(* index, attenuation, chosen listing and income.                          *)

InitDecision ==
    /\ pc = "day_input"
    /\ exception = "none"
    /\ r \in 0..MaxDay
    /\ velocity_attenuation_percentage \in Attenuations
    /\ rent \in DayListings
    /\ individual_income \in Incomes
    /\ savings = InitialSavings(individual_income)
    /\ today = NoToday
    /\ consumption_today = Unbound
    /\ asset_lost_today = Unbound
    /\ consumption_today_no_rainfall = <<Unbound, Unbound>>
    /\ disposable_asset_today = Unbound
    /\ disposable_asset_today_no_rainfall = Unbound
    /\ IdleInputs /\ IdleLoop /\ IdleHousing /\ IdleLists /\ IdleResults

DecideDay ==
    /\ pc = "day_input"
    /\ LET decision == DailyCommuteDecision(r, velocity_attenuation_percentage, rent,
                                            get_individual_income(individual_income)[3])
           actual == ConsumptionToday(individual_income, rent,
                                      decision.commuting_consumption, decision.income_lost)
       IN  /\ today' = decision
           /\ consumption_today' = actual[1]
           /\ asset_lost_today' = actual[2]
           /\ consumption_today_no_rainfall' =
                  ConsumptionToday(individual_income, rent, Zero, Zero)
    /\ pc' = "day_decided"
    /\ UNCHANGED <<exception, inputVars, loopVars, housingVars, residentVars, listVars,
                   resultVars, r, velocity_attenuation_percentage,
                   disposable_asset_today, disposable_asset_today_no_rainfall>>

NextDecision == DecideDay

SpecDecision == InitDecision /\ [][NextDecision]_vars

-----------------------------------------------------------------------------
(* Spec: simulate, from its first statement to the table it writes *)

RECURSIVE FloorEach(_)
FloorEach(s) == IF s = <<>> THEN <<>> ELSE <<RMax(s[1], Zero)>> \o FloorEach(Tail(s))

\* ResultRow with the floor applied to each day instead of to the total
ResultRow_FloorEachDay(listing, income, workplace, initial_savings, income_group, person, daily_well_being_loss, daily_asset_lost, daily_time_add, daily_distance_add) ==
    [listing |-> listing,
     people_income |-> income,
     workplace |-> workplace,
     initial_savings |-> initial_savings,
     income_group |-> income_group,
     people |-> person,
     well_being_loss |-> RSum(FloorEach(daily_well_being_loss)),
     asset_loss |-> RSum(daily_asset_lost),
     time_add |-> RSum(daily_time_add),
     distance_add |-> RSum(daily_distance_add)]

\* the row a resident is reduced to (rent_df.assign(...))
ResultRow(listing, income, workplace, initial_savings, income_group, person, daily_well_being_loss, daily_asset_lost, daily_time_add, daily_distance_add) ==
    [listing |-> listing,
     people_income |-> income,
     workplace |-> workplace,
     initial_savings |-> initial_savings,
     income_group |-> income_group,
     people |-> person,
     well_being_loss |-> RMax(RSum(daily_well_being_loss), Zero),
     asset_loss |-> RSum(daily_asset_lost),
     time_add |-> RSum(daily_time_add),
     distance_add |-> RSum(daily_distance_add)]

\* pd.concat([table, row], axis=0)
Concat(table, row) == table \o <<row>>

\* sum(list) of a list whose elements are tuples: 0 + tuple raises TypeError
SumRaisesTypeError(list_of_tuples) == list_of_tuples # <<>>

Init ==
    /\ pc = "workplace"
    /\ exception = "none"
    /\ people \in 1..MaxPeople
    /\ theta = theta_select
    /\ velocity_attenuation_percentage_list \in AttenuationSeries
    /\ IdleLoop /\ IdleHousing /\ IdleResident /\ IdleDay /\ IdleLists /\ IdleResults

\* for w in range(4): read the listing table of the workplace
ReadWorkplace ==
    /\ pc = "workplace"
    /\ w < Workplaces
    /\ df' \in Tables
    /\ i' = 0
    /\ pc' = "group"
    /\ UNCHANGED <<exception, inputVars, w, p, people_income_list,
                   actual_average_rent_income_ratio, rent_income_ratios, housingVars, residentVars, dayVars,
                   listVars, resultVars>>

\* the range simulate hands to get_people_income_list: the group's range, or
\* [average_income - 100, range_high] when the lower bound exceeds the average
DrawRange(range, average) ==
    IF RLt(average, range[1]) THEN <<RSub(average, I(100)), range[2]>> ELSE range

\* for i in range(len(average_income)): draw the incomes of the group
DrawIncomes ==
    /\ pc = "group"
    /\ i < Len(average_income)
    /\ people_income_list' \in
           get_people_income_list(DrawRange(income_range[i + 1], I(average_income[i + 1])),
                                  I(average_income[i + 1]), people)
    /\ actual_average_rent_income_ratio' = Zero
    /\ rent_income_ratios' = <<>>
    /\ p' = 0
    /\ pc' = "resident"
    /\ UNCHANGED <<exception, inputVars, df, w, i, housingVars, residentVars, dayVars,
                   listVars, resultVars>>

RentRange(income, ratio_range) ==
    <<RMul(I(income), ratio_range[1]), RMul(I(income), ratio_range[2])>>

\* the window a resident's search starts from
InitialWindow(actual_ratio, target_ratio) ==
    IF RLt(actual_ratio, target_ratio) THEN <<target_ratio, I(1)>> ELSE <<Zero, target_ratio>>

\* for p in range(len(people_income_list)): the first housing search
BeginResident ==
    /\ pc = "resident"
    /\ p < Len(people_income_list)
    /\ individual_income' = people_income_list[p + 1]
    /\ rent_income_ratio_range' =
           InitialWindow(actual_average_rent_income_ratio, rent_income_ratio[i + 1])
    /\ rent_option' = get_housing_group(df, RentRange(individual_income',
                                                      rent_income_ratio_range'))
    /\ retries' = 0
    /\ pc' = "widen"
    /\ UNCHANGED <<exception, inputVars, loopVars, rent, savings, dayVars, listVars,
                   resultVars>>

\* a widening that moves the upper end only
WidenWindow_UpperOnly(window) ==
    <<window[1], RAdd(window[2], R(5, 100))>>

\* rent_income_ratio_range[0] -= 0.05; rent_income_ratio_range[1] += 0.05
WidenWindow(window) ==
    <<RSub(window[1], R(5, 100)), RAdd(window[2], R(5, 100))>>

\* while len(rent_option) == 0: widen the ratio window and search again
Widen ==
    /\ pc = "widen"
    /\ Len(rent_option) = 0
    /\ retries < MaxWiden
    /\ rent_income_ratio_range' = WidenWindow(rent_income_ratio_range)
    /\ rent_option' = get_housing_group(df, RentRange(individual_income,
                                                      rent_income_ratio_range'))
    /\ retries' = retries + 1
    /\ UNCHANGED <<pc, exception, inputVars, loopVars, residentVars, dayVars, listVars,
                   resultVars>>

\* an update that averages the old value and the new ratio
RunningRatio_Halved(actual_ratio, residents, ratio) ==
    RDiv(RAdd(actual_ratio, ratio), I(2))

\* (actual_average_rent_income_ratio * p + rent_per_month / income_per_month) / (p + 1)
RunningRatio(actual_ratio, residents, ratio) ==
    RDiv(RAdd(RMul(actual_ratio, I(residents)), ratio), I(residents + 1))

\* a zero among the distances, times or rents of the candidates: 1 / x
\* raises ZeroDivisionError (lines 33-40)
HasZero(candidates) ==
    \E k \in 1..Len(candidates) :
        \/ candidates[k].driving_distance = 0
        \/ candidates[k].driving_time = 0
        \/ candidates[k].individual_rent_price = 0

Column(candidates, name) == [k \in 1..Len(candidates) |-> candidates[k][name]]

\* prob = probability_normalize(distance, time, rent, 0.4, 0.4, 0.2)
Prob(candidates) ==
    probability_normalize(Column(candidates, "driving_distance"),
                          Column(candidates, "driving_time"),
                          Column(candidates, "individual_rent_price"),
                          R(4, 10), R(4, 10), R(2, 10))

\* the weighted draw of a listing and the resident's initial values
ChooseListing ==
    /\ pc = "widen"
    /\ Len(rent_option) > 0
    /\ IF HasZero(rent_option)
       THEN /\ pc' = "raised"
            /\ exception' = "ZeroDivisionError"
            /\ UNCHANGED <<rent, savings, actual_average_rent_income_ratio, rent_income_ratios, listVars, r>>
       ELSE /\ \E rent_index \in 1..Len(rent_option) :
                   /\ RLt(Zero, Prob(rent_option)[rent_index])
                   /\ rent' = rent_option[rent_index]
            /\ savings' = InitialSavings(individual_income)
            /\ actual_average_rent_income_ratio' =
                   RunningRatio(actual_average_rent_income_ratio, p,
                                RDiv(I(rent'.individual_rent_price),
                                     get_individual_income(individual_income)[1]))
            /\ rent_income_ratios' =
                   Append(rent_income_ratios,
                          RDiv(I(rent'.individual_rent_price),
                               get_individual_income(individual_income)[1]))
            /\ consumption' = <<>>
            /\ asset' = <<savings'>>
            /\ well_being_loss' = <<>>
            /\ consumption_no_rainfall' = <<>>
            /\ asset_lost_per_day' = <<>>
            /\ time_add_per_day' = <<>>
            /\ distance_add_per_day' = <<>>
            /\ r' = 0
            /\ pc' = "day"
            /\ exception' = exception
    /\ UNCHANGED <<inputVars, df, w, i, p, people_income_list, housingVars,
                   individual_income, velocity_attenuation_percentage, today,
                   consumption_today, asset_lost_today, consumption_today_no_rainfall,
                   disposable_asset_today, disposable_asset_today_no_rainfall,
                   resultVars>>

\* one pass of the day loop.  get_consumption returns a tuple; the second call
\* binds the whole tuple to consumption_today_no_rainfall, the tuple is appended
\* to consumption_no_rainfall, and sum(consumption_no_rainfall) raises TypeError
\* before the no-rain asset, the well-being and the per-day lists are computed.
Day ==
    /\ pc = "day"
    /\ r < Len(velocity_attenuation_percentage_list)
    /\ velocity_attenuation_percentage' = velocity_attenuation_percentage_list[r + 1]
    /\ LET decision == DailyCommuteDecision(r, velocity_attenuation_percentage', rent,
                                            get_individual_income(individual_income)[3])
           actual == ConsumptionToday(individual_income, rent,
                                      decision.commuting_consumption, decision.income_lost)
       IN  /\ today' = decision
           /\ consumption_today' = actual[1]
           /\ asset_lost_today' = actual[2]
           /\ consumption_today_no_rainfall' =
                  ConsumptionToday(individual_income, rent, Zero, Zero)
    /\ consumption' = Append(consumption, consumption_today')
    /\ consumption_no_rainfall' =
           Append(consumption_no_rainfall, consumption_today_no_rainfall')
    /\ disposable_asset_today' = RAdd(savings, RSum(consumption'))
    /\ SumRaisesTypeError(consumption_no_rainfall')
    /\ exception' = "TypeError"
    /\ pc' = "raised"
    /\ UNCHANGED <<inputVars, loopVars, housingVars, residentVars, r,
                   disposable_asset_today_no_rainfall, asset, well_being_loss,
                   asset_lost_per_day, time_add_per_day, distance_add_per_day,
                   resultVars>>

\* after the day loop: the resident's row, and the table it is put in
Reduce ==
    /\ pc = "day"
    /\ r = Len(velocity_attenuation_percentage_list)
    /\ result_dave_df' =
           Concat(result_save_df,
                  ResultRow(rent, individual_income, w + 1, savings, i + 1, p + 1,
                            well_being_loss, asset_lost_per_day, time_add_per_day,
                            distance_add_per_day))
    /\ processed' = processed + 1
    /\ p' = p + 1
    /\ pc' = "resident"
    /\ UNCHANGED <<exception, inputVars, df, w, i, people_income_list,
                   actual_average_rent_income_ratio, rent_income_ratios, housingVars, residentVars, dayVars,
                   listVars, result_save_df, written>>

\* the residents of the group are done
EndGroup ==
    /\ pc = "resident"
    /\ p = Len(people_income_list)
    /\ i' = i + 1
    /\ pc' = "group"
    /\ UNCHANGED <<exception, inputVars, df, w, p, people_income_list,
                   actual_average_rent_income_ratio, rent_income_ratios, housingVars, residentVars, dayVars,
                   listVars, resultVars>>

\* the income groups of the workplace are done
EndWorkplace ==
    /\ pc = "group"
    /\ i = Len(average_income)
    /\ w' = w + 1
    /\ pc' = "workplace"
    /\ UNCHANGED <<exception, inputVars, df, i, p, people_income_list,
                   actual_average_rent_income_ratio, rent_income_ratios, housingVars, residentVars, dayVars,
                   listVars, resultVars>>

\* result_dave_df.to_excel(...)
WriteResults ==
    /\ pc = "workplace"
    /\ w = Workplaces
    /\ written' = result_dave_df
    /\ pc' = "done"
    /\ UNCHANGED <<exception, inputVars, loopVars, housingVars, residentVars, dayVars,
                   listVars, result_save_df, result_dave_df, processed>>

Next ==
    \/ ReadWorkplace
    \/ DrawIncomes
    \/ BeginResident
    \/ Widen
    \/ ChooseListing
    \/ Day
    \/ Reduce
    \/ EndGroup
    \/ EndWorkplace
    \/ WriteResults

Spec == Init /\ [][Next]_vars

-----------------------------------------------------------------------------
(* SpecReduce: the statements after the day loop (the resident's row and   *)
(* the table it is put in), on drawn per-day lists of a resident.          *)

DailyValues == {I(-2), I(-1), Zero, I(1), I(3)}
DailyLists(n) == [1..n -> DailyValues]
ConstantList(n, v) == [k \in 1..n |-> v]

InitReduce ==
    /\ pc = "day"
    /\ exception = "none"
    /\ people = 1
    /\ theta = theta_select
    /\ velocity_attenuation_percentage_list \in
           { ConstantList(n, R(1, 2)) : n \in 1..MaxReduceDays }
    /\ r = Len(velocity_attenuation_percentage_list)
    /\ df \in Tables
    /\ w = 0 /\ i = 0 /\ p = 0
    /\ individual_income \in Incomes
    /\ people_income_list = <<individual_income>>
    /\ \E k \in 1..Len(df) : rent = df[k]
    /\ savings = InitialSavings(individual_income)
    /\ actual_average_rent_income_ratio =
           RDiv(I(rent.individual_rent_price), get_individual_income(individual_income)[1])
    /\ rent_income_ratios = <<actual_average_rent_income_ratio>>
    /\ well_being_loss \in DailyLists(r)
    /\ asset_lost_per_day \in {ConstantList(r, Zero), ConstantList(r, I(20))}
    /\ time_add_per_day = ConstantList(r, I(60))
    /\ distance_add_per_day = ConstantList(r, Zero)
    /\ consumption = <<>>
    /\ consumption_no_rainfall = <<>>
    /\ asset = <<savings>>
    /\ velocity_attenuation_percentage = Unbound
    /\ today = NoToday
    /\ consumption_today = Unbound
    /\ asset_lost_today = Unbound
    /\ consumption_today_no_rainfall = <<Unbound, Unbound>>
    /\ disposable_asset_today = Unbound
    /\ disposable_asset_today_no_rainfall = Unbound
    /\ IdleHousing /\ IdleResults

NextReduce == Reduce

SpecReduce == InitReduce /\ [][NextReduce]_vars

-----------------------------------------------------------------------------
(* SpecIncome: the draw loop of get_people_income_list, one draw a step,   *)
(* on the range simulate hands it for a drawn income group.                *)

\* income groups: fractional range bounds, a fractional average, and a
\* lower bound above the average
IncomeTiers ==
    << [income_range |-> <<R(20877, 2), R(20883, 2)>>, average_income |-> I(10440)],
       [income_range |-> <<I(10440), I(10441)>>, average_income |-> R(20881, 2)],
       [income_range |-> <<R(20881, 2), I(10441)>>, average_income |-> I(10440)] >>

Tier == IncomeTiers[i + 1]
TierDrawRange == DrawRange(Tier.income_range, Tier.average_income)

InitIncome ==
    /\ pc = "income"
    /\ exception = "none"
    /\ people = MaxDraws
    /\ theta = theta_select
    /\ velocity_attenuation_percentage_list = <<>>
    /\ df = <<>>
    /\ w = 0 /\ p = 0
    /\ i \in 0..(Len(IncomeTiers) - 1)
    /\ people_income_list = <<>>
    /\ actual_average_rent_income_ratio = Zero
    /\ rent_income_ratios = <<>>
    /\ IdleHousing /\ IdleResident /\ IdleDay /\ IdleLists /\ IdleResults

\* one pass of "for _ in range(people_number)"
DrawIncome ==
    /\ pc = "income"
    /\ Len(people_income_list) < people
    /\ \E x \in IncomeDraws(TierDrawRange, Tier.average_income, people_income_list) :
           people_income_list' = Append(people_income_list, x)
    /\ UNCHANGED <<pc, exception, inputVars, df, w, i, p, actual_average_rent_income_ratio, rent_income_ratios,
                   housingVars, residentVars, dayVars, listVars, resultVars>>

NextIncome == DrawIncome

SpecIncome == InitIncome /\ [][NextIncome]_vars

-----------------------------------------------------------------------------
(* SpecHousing: the housing search of the residents of one income group    *)
(* (lines 141-178), on an empty attenuation series so that the day loop    *)
(* has no pass and every resident is reached.                              *)

\* listing tables of a workplace: an empty table, rents equal to a bound of
\* the first window of group 0 (10440 * 0.30 / 12 = 261), rents below every
\* first window (174 = 10440 * 0.20 / 12 is a bound after two widenings), and
\* a table with several eligible rents, a table in which one listing is
\* closer, faster and cheaper than another, and tables with a zero distance,
\* time or rent
HousingTables ==
    { << >>,
      << Listing(261, 12, 30, 15, 10, 60, 10), Listing(300, 8, 40, 5, 15, 60, 10) >>,
      << Listing(174, 12, 40, 40, 10, 90, 10), Listing(200, 9, 30, 15, 10, 60, 10) >>,
      << Listing(1500, 12, 30, 5, 15, 90, 10), Listing(300, 6, 40, 40, 10, 60, 10),
         Listing(900, 9, 30, 15, 10, 90, 10) >>,
      << Listing(400, 12, 30, 15, 10, 60, 10), Listing(300, 6, 20, 5, 15, 60, 10),
         Listing(350, 4, 40, 15, 10, 90, 10) >>,
      << Listing(300, 0, 30, 15, 10, 60, 10), Listing(400, 6, 20, 5, 15, 60, 10) >>,
      << Listing(300, 5, 0, 15, 10, 60, 10) >>,
      << Listing(0, 12, 30, 15, 10, 60, 10), Listing(600, 6, 20, 5, 15, 60, 10) >> }

InitHousing ==
    /\ pc = "resident"
    /\ exception = "none"
    /\ people \in 1..MaxPeople
    /\ theta = theta_select
    /\ velocity_attenuation_percentage_list = <<>>
    /\ df \in HousingTables
    /\ w = 0 /\ p = 0
    /\ i \in 0..(Len(average_income) - 1)
    /\ people_income_list = [k \in 1..people |-> average_income[i + 1]]
    /\ actual_average_rent_income_ratio = Zero
    /\ rent_income_ratios = <<>>
    /\ IdleHousing /\ IdleResident /\ IdleDay /\ IdleLists /\ IdleResults

NextHousing == BeginResident \/ Widen \/ ChooseListing \/ Reduce

SpecHousing == InitHousing /\ [][NextHousing]_vars

-----------------------------------------------------------------------------
(* SpecWellbeing: the call of get_wellbeing of a day (lines 290-298), on    *)
(* drawn assets and a drawn whole theta.                                   *)

Thetas == {I(0), I(1), I(2)}
WellbeingAssets == {I(40), I(50), I(80), I(100), I(6995), I(7000)}

InitWellbeing ==
    /\ pc = "wellbeing"
    /\ exception = "none"
    /\ people = 0
    /\ theta \in Thetas
    /\ velocity_attenuation_percentage_list = <<>>
    /\ disposable_asset_today \in WellbeingAssets
    /\ disposable_asset_today_no_rainfall \in WellbeingAssets
    /\ r = 0
    /\ velocity_attenuation_percentage = Unbound
    /\ today = NoToday
    /\ consumption_today = Unbound
    /\ asset_lost_today = Unbound
    /\ consumption_today_no_rainfall = <<Unbound, Unbound>>
    /\ IdleLoop /\ IdleHousing /\ IdleResident /\ IdleLists /\ IdleResults

\* well_being_today, well_being_loss_today = ei.get_wellbeing(...);
\* well_being_loss.append(well_being_loss_today).  With theta = 1 the
\* division by 1 - theta raises ZeroDivisionError on Python numbers and
\* gives inf (and the loss inf - inf = nan) on NumPy numbers.
GetWellbeing ==
    /\ pc = "wellbeing"
    /\ IF theta = I(1)
       THEN \/ /\ pc' = "raised"
               /\ exception' = "ZeroDivisionError"
               /\ UNCHANGED well_being_loss
            \/ /\ pc' = "wellbeing_done"
               /\ well_being_loss' = Append(well_being_loss, NaN)
               /\ UNCHANGED exception
       ELSE /\ pc' = "wellbeing_done"
            /\ well_being_loss' =
                   Append(well_being_loss,
                          get_wellbeing(disposable_asset_today,
                                        disposable_asset_today_no_rainfall, theta)[2])
            /\ UNCHANGED exception
    /\ UNCHANGED <<inputVars, loopVars, housingVars, residentVars, dayVars, consumption,
                   consumption_no_rainfall, asset, asset_lost_per_day, time_add_per_day,
                   distance_add_per_day, resultVars>>

NextWellbeing == GetWellbeing

SpecWellbeing == InitWellbeing /\ [][NextWellbeing]_vars

-----------------------------------------------------------------------------
(* Properties of the day's decision (SpecDecision) *)

Decided == pc = "day_decided"
Workday == ~(r % 7 \in {0, 1})
AllZeroToday ==
    /\ today.commuting_consumption = Zero
    /\ today.income_lost = Zero
    /\ today.time_add = Zero
    /\ today.distance_add = Zero
DayTotal(option) == RAdd(option.commuting_consumption, option.income_lost)

\* C1: on a workday whose attenuation a is below 1 the resident switches to
\* driving exactly when fare_add = (driving_fare - transit_price)/a is at most
\* income_loss_if_transit = (1/a) * max(income_per_hour, 10) *
\* (transit_time - driving_time)/60, and the day's cost_added, income_lost,
\* time_added and distance_added are those the decision rule states for the
\* mode chosen.
C1_DecisionRule ==
    (Decided /\ Workday /\ RLt(velocity_attenuation_percentage, I(1))) =>
        LET a == velocity_attenuation_percentage
            wage == RMax(RDiv(I(individual_income), I(2088)), I(10))
            fare_add == RDiv(I(rent.driving_fare - rent.transit_price), a)
            income_loss_if_transit ==
                RDiv(RMul(RMul(RInv(a), wage), I(rent.commuting_time - rent.driving_time)),
                     I(60))
        IN  /\ today.branch \in {"drive", "transit"}
            /\ today.branch = "drive" <=> RLe(fare_add, income_loss_if_transit)
            /\ today.branch = "drive" =>
                /\ today.commuting_consumption = fare_add
                /\ today.income_lost =
                       RMul(RDiv(RMax(RSub(RDiv(I(rent.driving_time), a),
                                           I(rent.commuting_time)), Zero), I(60)), wage)
                /\ today.time_add = RSub(RDiv(I(rent.driving_time), a), I(rent.commuting_time))
                /\ today.distance_add = I(rent.driving_distance - rent.commuting_distance)
            /\ today.branch = "transit" =>
                /\ today.commuting_consumption = Zero
                /\ today.income_lost =
                       RMul(RDiv(I(rent.commuting_time), RMul(I(60), a)), wage)
                /\ today.time_add = RMul(I(rent.commuting_time), RSub(RInv(a), I(1)))
                /\ today.distance_add = Zero

\* a rainy workday on which fare_add equals income_loss_if_transit and the
\* resident has switched to driving
C1_Witness ==
    /\ Decided /\ Workday
    /\ velocity_attenuation_percentage = R(1, 2)
    /\ rent.driving_fare = 15 /\ rent.driving_time = 30 /\ rent.commuting_time = 60
    /\ individual_income = 10440
    /\ today.branch = "drive"
    /\ today.commuting_consumption = I(10)

\* C2: on every rainy workday the mode chosen is the one whose same-day total
\* cost cost_added + income_lost is the smaller of the two options.
C2_ChosenModeIsCheapest ==
    (Decided /\ Workday /\ RLt(velocity_attenuation_percentage, I(1))) =>
        LET a == velocity_attenuation_percentage
            iph == get_individual_income(individual_income)[3]
        IN  DayTotal(today) = RMin(DayTotal(DriveOption(a, rent, iph)),
                                   DayTotal(TransitOption(a, rent, iph)))

\* C3: the asset loss a simulated day contributes to the resident's total
\* asset_loss is cost_added + income_lost and is >= 0, also for listings whose
\* driving_fare is lower than transit_price (the total of a series with one
\* rainy workday is that day's contribution).
C3_AssetLossNonNegative ==
    Decided =>
        /\ asset_lost_today = RAdd(today.commuting_consumption, today.income_lost)
        /\ RLe(Zero, asset_lost_today)

\* C4: on a day whose index r has r mod 7 in {0, 1}, whatever the attenuation,
\* and on a workday whose attenuation equals 1, cost_added, income_lost,
\* time_added and distance_added are zero and so is the day's asset loss.
C4_NoCommuteNoLoss ==
    (Decided /\ (r % 7 \in {0, 1} \/ velocity_attenuation_percentage = I(1))) =>
        /\ AllZeroToday
        /\ asset_lost_today = Zero

\* a weekend-pattern day with a rain-slowed attenuation, decided
C4_Witness ==
    /\ Decided
    /\ r % 7 = 1
    /\ velocity_attenuation_percentage = R(1, 2)
    /\ rent.driving_fare = 5
    /\ today.branch = "weekend"

\* C5: on a workday whose attenuation is any value >= 1 the day's cost_added,
\* income_lost, time_added and distance_added are all zero.
C5_AtLeastOneIsNoRain ==
    (Decided /\ Workday /\ RLe(I(1), velocity_attenuation_percentage)) => AllZeroToday

-----------------------------------------------------------------------------
(* Properties of simulate (Spec) *)

AllOnes(series) == \A k \in 1..Len(series) : series[k] = I(1)
RowTotalsZero(row) ==
    /\ row.well_being_loss = Zero
    /\ row.asset_loss = Zero
    /\ row.time_add = Zero
    /\ row.distance_add = Zero

\* C7: when the attenuation series consists only of 1.0 values, every
\* resident's simulation completes (no exception is raised) and the row it is
\* reduced to has total well-being loss, asset loss, time added and distance
\* added equal to 0.
C7_AllOnesCompletesWithZero ==
    AllOnes(velocity_attenuation_percentage_list) =>
        /\ exception = "none"
        /\ \A k \in 1..Len(result_dave_df) : RowTotalsZero(result_dave_df[k])

\* C8: at the end of every simulated day both tracks hold a numeric cumulative
\* asset: the actual asset is savings + the sum of the actual daily
\* consumption, the counterfactual asset is savings + the sum of the no-rain
\* daily consumption (cost_added = income_lost = 0), and no error is raised.
C8_BothTracksEachDay ==
    Len(consumption) > 0 =>
        /\ exception = "none"
        /\ disposable_asset_today = RAdd(savings, RSum(consumption))
        /\ disposable_asset_today_no_rainfall =
               RAdd(savings,
                    RSum([k \in 1..Len(consumption) |->
                             ConsumptionToday(individual_income, rent, Zero, Zero)[1]]))

\* C9: after simulate has processed k residents the results table holds
\* exactly k rows, and the table written out holds one row per resident.
C9_OneRowPerResident ==
    /\ Len(result_dave_df) = processed
    /\ pc = "done" => Len(written) = processed

-----------------------------------------------------------------------------
(* Properties of the reduction of a resident to a row (SpecReduce) *)

\* C10: the reported well_being_loss of a resident is max(sum of the daily
\* well-being losses, 0): the floor is applied to the total and not to the
\* single days, and the reported value is never negative.
C10_FloorOnTotal ==
    (pc = "resident" /\ processed > 0) =>
        LET row == result_dave_df[Len(result_dave_df)]
            total == RSum(well_being_loss)
        IN  /\ row.well_being_loss = (IF RLe(Zero, total) THEN total ELSE Zero)
            /\ RLe(Zero, row.well_being_loss)

\* a resident with a negative and a positive daily loss, reduced to a row
C10_Witness ==
    /\ pc = "resident" /\ processed > 0
    /\ well_being_loss = <<I(-2), I(3)>>
    /\ result_dave_df[Len(result_dave_df)].well_being_loss = I(1)


-----------------------------------------------------------------------------
(* Properties of the income draw (SpecIncome) *)

Drawing == pc = "income"
DrawnBefore(k) == SubSeq(people_income_list, 1, k - 1)
Between(low, x, high) == RLe(low, I(x)) /\ RLe(I(x), high)
\* running sum of the first n incomes minus n times the average
Deviation(n) == RSub(RSum([k \in 1..n |-> I(people_income_list[k])]), RMul(I(n), Tier.average_income))
RAbs(a) == IF a.n < 0 THEN RNeg(a) ELSE a
RangeAroundAverage == RLe(TierDrawRange[1], Tier.average_income) /\ RLe(Tier.average_income, TierDrawRange[2])
WithinWidth == \A n \in 1..Len(people_income_list) : RLe(RAbs(Deviation(n)), RSub(TierDrawRange[2], TierDrawRange[1]))

\* C11 (as stated): a draw made while the running average is below
\* average_income comes from [range_low, average_income], a draw made once it
\* is at or above average_income comes from [average_income, range_high]; the
\* first draw (running average 0) comes from [range_low, average_income].
C11_LowWhileBelow ==
    Drawing =>
        \A k \in 1..Len(people_income_list) :
            IF RLt(RunningAverage(DrawnBefore(k)), Tier.average_income)
            THEN Between(TierDrawRange[1], people_income_list[k], Tier.average_income)
            ELSE Between(Tier.average_income, people_income_list[k], TierDrawRange[2])

\* C11 (amended): a draw made while the running average is at or below
\* average_income (the first draw included) comes from
\* [int(average_income), int(range_high)]; a draw made while it is above
\* average_income comes from [int(range_low), int(average_income)].
C11_HighWhileNotAbove ==
    Drawing =>
        \A k \in 1..Len(people_income_list) :
            IF RLt(Tier.average_income, RunningAverage(DrawnBefore(k)))
            THEN people_income_list[k] \in PyInt(TierDrawRange[1]) .. PyInt(Tier.average_income)
            ELSE people_income_list[k] \in PyInt(Tier.average_income) .. PyInt(TierDrawRange[2])

\* a first draw above the average followed by a draw below it
C11_Witness ==
    /\ Drawing
    /\ Len(people_income_list) >= 2
    /\ RLt(Tier.average_income, I(people_income_list[1]))
    /\ RLt(I(people_income_list[2]), Tier.average_income)

C13_IncomeInsideGroupRange ==
    Drawing =>
        \A k \in 1..Len(people_income_list) :
            Between(Tier.income_range[1], people_income_list[k], Tier.income_range[2])



-----------------------------------------------------------------------------
(* Properties of the housing search (SpecHousing) *)

Searching == pc = "widen"
Housed == pc = "day"
MonthlyBound(ratio) == RDiv(RMul(I(individual_income), ratio), I(12))
SearchStillRunning == Searching /\ Len(rent_option) = 0 /\ exception = "none"

\* C14: the listing assigned to a resident has a monthly rent strictly
\* inside the final (possibly widened) window:
\* income * ratio_low / 12 < rent < income * ratio_high / 12.
C14_RentStrictlyInsideWindow ==
    Housed =>
        /\ RLt(MonthlyBound(rent_income_ratio_range[1]), I(rent.individual_rent_price))
        /\ RLt(I(rent.individual_rent_price), MonthlyBound(rent_income_ratio_range[2]))

\* a resident housed after a widening, from a table that holds a listing
\* whose rent equals the lower bound of the final window
C14_Witness ==
    /\ Housed
    /\ retries >= 1
    /\ \E k \in 1..Len(df) :
           I(df[k].individual_rent_price) = MonthlyBound(rent_income_ratio_range[1])

\* C15: the housing search ends after finitely many widenings for every
\* listing table and every income: it is never still without a listing
\* when MaxWiden widenings have been made.
C15_SearchEnds == ~(SearchStillRunning /\ retries = MaxWiden)

\* on an empty table a widening leaves the search without a listing,
\* whatever the window
EmptyTableNeverMatches == (Searching /\ df = <<>>) => SearchStillRunning

\* C16: a search that has found nothing after the maximum number of
\* widenings has stopped and reported that no housing is eligible.
C16_NoEligibleHousingReported ==
    (Searching /\ Len(rent_option) = 0 /\ retries = MaxWiden) =>
        exception = "NoEligibleHousing"

\* C20: after k widenings the window is [low0 - 0.05 k, high0 + 0.05 k],
\* where [low0, high0] is the window the search started from, and the
\* listings kept are those of the rent range income * window.
C20_WindowAfterRetries ==
    Searching =>
        LET window0 == InitialWindow(actual_average_rent_income_ratio, rent_income_ratio[i + 1])
        IN  /\ rent_income_ratio_range[1] = RSub(window0[1], R(5 * retries, 100))
            /\ rent_income_ratio_range[2] = RAdd(window0[2], R(5 * retries, 100))
            /\ rent_option = get_housing_group(df, <<RMul(I(individual_income), rent_income_ratio_range[1]), RMul(I(individual_income), rent_income_ratio_range[2])>>)

\* a search that found a listing only after two or more widenings
C20_Witness ==
    /\ Searching
    /\ retries >= 2
    /\ Len(rent_option) > 0



-----------------------------------------------------------------------------
(* Properties of the listing choice (SpecHousing) *)

\* the share of candidate k in the inverses of a column
InverseShare(candidates, name, k) ==
    RDiv(RInv(I(candidates[k][name])),
         RSum([j \in 1..Len(candidates) |-> RInv(I(candidates[j][name]))]))

\* candidate j is closer, faster and cheaper than candidate k
Dominates(candidates, j, k) ==
    /\ candidates[j].driving_distance < candidates[k].driving_distance
    /\ candidates[j].driving_time < candidates[k].driving_time
    /\ candidates[j].individual_rent_price < candidates[k].individual_rent_price

C19_ZeroReportedAsValidationFailure ==
    (pc = "raised" /\ HasZero(rent_option)) => exception = "ValidationError"

\* no probability is drawn from when a candidate has a zero
ZeroNeverHoused == Housed => ~HasZero(rent_option)



-----------------------------------------------------------------------------
(* Properties of the well-being call (SpecWellbeing) *)

\* C18: with theta = 1 the call of get_wellbeing ends in an explicit
\* configuration error and no well-being value is produced.
C18_ThetaOneConfigurationError ==
    (theta = I(1) /\ pc \in {"raised", "wellbeing_done"}) =>
        (exception = "ConfigurationError" /\ well_being_loss = <<>>)



-----------------------------------------------------------------------------
(* Properties of the running rent-income ratio (SpecHousing) *)

Mean(ratios) == IF ratios = <<>> THEN Zero ELSE RDiv(RSum(ratios), I(Len(ratios)))
TargetRatio == rent_income_ratio[i + 1]
\* the window the current search started from: the widenings taken back
StartWindow == <<RAdd(rent_income_ratio_range[1], R(5 * retries, 100)), RSub(rent_income_ratio_range[2], R(5 * retries, 100))>>

\* C21: the running value actual_average_rent_income_ratio is the mean of
\* monthly rent / monthly income over the residents housed so far in the
\* group (0 before the first); a resident's search starts from [target, 1]
\* when that mean is below the group's target ratio and from [0, target]
\* otherwise, and the first resident's search starts from [target, 1].
C21_RunningRatioIsMean ==
    /\ actual_average_rent_income_ratio = Mean(rent_income_ratios)
    /\ Len(rent_income_ratios) = IF Housed THEN p + 1 ELSE p
    /\ Searching =>
           /\ StartWindow = IF RLt(Mean(rent_income_ratios), TargetRatio)
                             THEN <<TargetRatio, I(1)>>
                             ELSE <<Zero, TargetRatio>>
           /\ p = 0 => StartWindow = <<TargetRatio, I(1)>>

\* a second resident housed at a ratio other than the first one's, after a
\* search that started from [0, target]
C21_Witness ==
    /\ Housed
    /\ p >= 1
    /\ rent_income_ratios[1] # rent_income_ratios[2]
    /\ StartWindow = <<Zero, TargetRatio>>



-----------------------------------------------------------------------------
(* Properties of the two asset tracks (Spec, SpecDecision) *)

\* C22: once a day of a resident has been executed, the counterfactual asset
\* minus the actual asset equals the asset loss accumulated over the days
\* executed so far, and the day ended without an error.
C22_GapIsAccumulatedLoss ==
    Len(consumption) >= 1 =>
        /\ exception = "none"
        /\ Len(asset_lost_per_day) = Len(consumption)
        /\ RSub(disposable_asset_today_no_rainfall, disposable_asset_today) = RSum(asset_lost_per_day)

\* within one day the consumption without rain exceeds the actual
\* consumption by the day's asset loss (first element of the tuple bound
\* at line 273)
DayGapIsDayLoss ==
    Decided => RSub(consumption_today_no_rainfall[1], consumption_today) = asset_lost_today


====
